---- MODULE Spec2Model ----
(***************************************************************************)
(* The tool-calling control loop of the NVIDIA research assistant          *)
(* (agents/controller.py) together with its HTTP entry point               *)
(* (backend/main.py).                                                      *)
(*                                                                         *)
(* One behaviour is one request to /query_research_agent: the oracle is    *)
(* initialised, the graph built by build_graph runs node by node           *)
(* (oracle -> tool node -> oracle ... -> final_answer -> END) and the      *)
(* handler turns the final state, or the exception that escaped the graph, *)
(* into the HTTP response.                                                 *)
(*                                                                         *)
(* Python values are tagged records [t, v] so that None, a string and a    *)
(* list can sit in the same argument bundle; a dict is a function from its *)
(* keys to such values.  Texts (tool results, logs, JSON) are strings.     *)
(* The source's non-ASCII markers are transliterated: the cross mark of    *)
(* snowflake_tool.py is written "[X]".                                     *)
(***************************************************************************)
EXTENDS Integers, Sequences, FiniteSets, TLC

VARIABLES
    request,             \* NVIDIARequest received by the entry point
    input,               \* AgentState["input"]
    year,                \* AgentState["year"]
    quarter,             \* AgentState["quarter"]
    intermediate_steps,  \* AgentState["intermediate_steps"]
    pc,                  \* position of the request: "start", a graph node, "END", "raised"
    nsteps,              \* supersteps the compiled graph has executed
    scratchpad,          \* the scratchpad text the latest Decision Step passed to the model
    tool_call,           \* run_oracle's local tool_call (name, args) of the latest decision
    proposals,           \* every (name, args) the Decision Step proposed in this session
    dispatches,          \* number of run_tool executions in this session
    collaborator,        \* what the collaborator behind the latest dispatch did
    fault,               \* the exception that escaped run_research_agent / agent.invoke
    response,            \* what query_nvidia_documents returned
    files,               \* chart files in the working directory of the server process(es)
    bucket,              \* objects of the S3 bucket, by key
    workers,             \* concurrent snowflake_query_tool invocations, one per session
    decisions,           \* what the duplicate check of run_oracle decided, per evaluation
    agent_outcome,       \* langgraph_controller.AgentState["agent_outcome"]
    orchestrator         \* a ResearchOrchestrator and the locals of its run()

\* the state of one session
session_vars == <<request, input, year, quarter, intermediate_steps, pc, nsteps, scratchpad,
                  tool_call, proposals, dispatches, collaborator, fault, response>>

\* the state shared by concurrent snowflake_query_tool invocations
chart_vars == <<files, bucket, workers>>

\* the state of the parts that stand beside the session of controller.py
side_vars == <<decisions, agent_outcome, orchestrator>>

vars == <<session_vars, chart_vars, side_vars>>

(***************************************************************************)
(* Bounds                                                                  *)
(***************************************************************************)
\* supersteps a session may take before the graph raises GraphRecursionError
RecursionLimit == 6

\* records of the histories whose scratchpad text is built with long tool outputs
MaxHistory == 3

(***************************************************************************)
(* Python values, dicts and texts                                          *)
(***************************************************************************)
None == [t |-> "none", v |-> <<>>]
Str(s) == [t |-> "str", v |-> <<s>>]
List(q) == [t |-> "list", v |-> q]

IsList(x) == x.t = "list"

EmptyDict == <<>>

DictGet(d, k, dflt) == IF k \in DOMAIN d THEN d[k] ELSE dflt

DictSet(d, k, val) == [x \in (DOMAIN d) \cup {k} |-> IF x = k THEN val ELSE d[x]]

DictPop(d, k) == [x \in (DOMAIN d) \ {k} |-> d[x]]

Last(s) == s[Len(s)]

IsPrefix(s, t) == Len(s) <= Len(t) /\ \A i \in 1..Len(s) : s[i] = t[i]

RECURSIVE Join(_, _)
\* sep.join(parts)
Join(parts, sep) ==
    IF Len(parts) = 0 THEN ""
    ELSE IF Len(parts) = 1 THEN parts[1]
    ELSE parts[1] \o sep \o Join(Tail(parts), sep)

\* keys of a sequence of keys that a dict holds, in that order
KeysIn(d, order) == SelectSeq(order, LAMBDA k : k \in DOMAIN d)

\* Python's str() of a value
PyStr(x) ==
    IF x.t = "none" THEN "None"
    ELSE IF x.t = "str" THEN x.v[1]
    ELSE "[" \o Join([i \in 1..Len(x.v) |-> "'" \o x.v[i] \o "'"], ", ") \o "]"

\* Python's repr() of a value
PyRepr(x) == IF x.t = "str" THEN "'" \o x.v[1] \o "'" ELSE PyStr(x)

ArgKeyOrder == <<"query", "input", "year", "quarter", "research_steps",
                 "historical_performance", "financial_analysis", "industry_insights",
                 "summary", "sources", "analysis_type">>

\* the text an f-string gives for a dict
DictRepr(d) ==
    LET ks == KeysIn(d, ArgKeyOrder)
    IN "{" \o Join([i \in 1..Len(ks) |-> "'" \o ks[i] \o "': " \o PyRepr(d[ks[i]])], ", ") \o "}"

(***************************************************************************)
(* json.dumps and json.loads, character by character, for the documents    *)
(* the program writes: objects whose values are strings, lists of strings  *)
(* or null.                                                                *)
(***************************************************************************)
CharAt(s, i) == SubSeq(s, i, i)

\* the positions of s, in order
Indices(s) == [i \in 1..Len(s) |-> i]

\* characters json.dumps writes as an escape sequence
NeedsEscape(s, i) == CharAt(s, i) \in {"\"", "\\", "\n", "\t", "\r", "\f"}

EscapeOf(c) ==
    IF c = "\"" THEN "\\\""
    ELSE IF c = "\\" THEN "\\\\"
    ELSE IF c = "\n" THEN "\\n"
    ELSE IF c = "\t" THEN "\\t"
    ELSE IF c = "\r" THEN "\\r"
    ELSE "\\f"

RECURSIVE EscapeFrom(_, _, _, _)
\* s from position `from` on, with the characters at sp[k], sp[k+1], ... escaped
EscapeFrom(s, sp, k, from) ==
    IF k > Len(sp) THEN SubSeq(s, from, Len(s))
    ELSE SubSeq(s, from, sp[k] - 1) \o EscapeOf(CharAt(s, sp[k]))
             \o EscapeFrom(s, sp, k + 1, sp[k] + 1)

IsQuoteOrBackslash(s, i) == CharAt(s, i) \in {"\"", "\\"}

\* JsonEscape that escapes quotes and backslashes only
JsonEscape_QuotesOnly(s) == EscapeFrom(s, SelectSeq(Indices(s), LAMBDA i : IsQuoteOrBackslash(s, i)), 1, 1)

\* the body of a JSON string literal for s
JsonEscape(s) == EscapeFrom(s, SelectSeq(Indices(s), LAMBDA i : NeedsEscape(s, i)), 1, 1)

\* json.dumps of one value
JsonValue(x) ==
    IF x.t = "none" THEN "null"
    ELSE IF x.t = "str" THEN "\"" \o JsonEscape(x.v[1]) \o "\""
    ELSE "[" \o Join([i \in 1..Len(x.v) |-> "\"" \o JsonEscape(x.v[i]) \o "\""], ", ") \o "]"

\* json.dumps of a dict whose keys were inserted in the given order
JsonDumps(d, order) ==
    LET ks == KeysIn(d, order)
    IN "{" \o Join([i \in 1..Len(ks) |->
                      "\"" \o JsonEscape(ks[i]) \o "\": " \o JsonValue(d[ks[i]])], ", ") \o "}"

RECURSIVE BackslashesBefore(_, _)
\* length of the run of backslashes that ends right before position i
BackslashesBefore(s, i) ==
    IF i > 1 /\ CharAt(s, i - 1) = "\\" THEN 1 + BackslashesBefore(s, i - 1) ELSE 0

\* a quote that is not part of an escape sequence: it opens or closes a string literal
IsDelimiter(s, i) == CharAt(s, i) = "\"" /\ BackslashesBefore(s, i) % 2 = 0

IsBackslash(s, i) == CharAt(s, i) = "\\"

\* a control character, which may not stand unescaped in a string literal
IsControl(s, i) == CharAt(s, i) \in {"\n", "\t", "\r", "\f"}

UnescapeOf(c) ==
    IF c = "n" THEN "\n"
    ELSE IF c = "t" THEN "\t"
    ELSE IF c = "r" THEN "\r"
    ELSE IF c = "f" THEN "\f"
    ELSE c

RECURSIVE UnescapeFrom(_, _, _, _)
\* raw from position `from` on, the escape sequences that begin at bs[k], ... decoded
UnescapeFrom(raw, bs, k, from) ==
    IF k > Len(bs) THEN SubSeq(raw, from, Len(raw))
    ELSE LET c == CharAt(raw, bs[k] + 1)
         IN SubSeq(raw, from, bs[k] - 1) \o UnescapeOf(c)
               \o UnescapeFrom(raw, bs, IF c = "\\" THEN k + 2 ELSE k + 1, bs[k] + 2)

RECURSIVE EscapesValid(_, _, _)
\* every backslash of raw begins or ends one of the escapes \" \\ \/ \n \t \r \f
EscapesValid(raw, bs, k) ==
    IF k > Len(bs) THEN TRUE
    ELSE /\ bs[k] < Len(raw)
         /\ CharAt(raw, bs[k] + 1) \in {"\"", "\\", "/", "n", "t", "r", "f"}
         /\ EscapesValid(raw, bs, IF CharAt(raw, bs[k] + 1) = "\\" THEN k + 2 ELSE k + 1)

\* the body of a string literal is well formed: no raw control character, valid escapes
LiteralValid(raw) ==
    /\ SelectSeq(Indices(raw), LAMBDA i : IsControl(raw, i)) = <<>>
    /\ EscapesValid(raw, SelectSeq(Indices(raw), LAMBDA i : IsBackslash(raw, i)), 1)

Unescape(raw) == UnescapeFrom(raw, SelectSeq(Indices(raw), LAMBDA i : IsBackslash(raw, i)), 1, 1)

ParseFailure == [ok |-> FALSE, keys |-> <<>>, vals |-> <<>>]

RECURSIVE ParseList(_, _, _, _, _, _)
RECURSIVE ParseMembers(_, _, _, _, _)

\* text between the string literal number j and the next one (or the end of the text)
GapAfter(s, q, j) ==
    SubSeq(s, q[2 * j] + 1, IF 2 * j < Len(q) THEN q[2 * j + 1] - 1 ELSE Len(s))

\* body of the string literal number j
Literal(s, q, j) == SubSeq(s, q[2 * j - 1] + 1, q[2 * j] - 1)

\* what follows a complete value: ", " and the next member, or "}" and the end
AfterValue(s, q, j, gap, keys, vals) ==
    IF gap = ", " /\ 2 * j < Len(q) THEN ParseMembers(s, q, j + 1, keys, vals)
    ELSE IF gap = "}" /\ 2 * j = Len(q) THEN [ok |-> TRUE, keys |-> keys, vals |-> vals]
    ELSE ParseFailure

\* the literal number j is an element of the list being read for the last key
ParseList(s, q, j, keys, vals, items) ==
    IF 2 * j > Len(q) \/ ~LiteralValid(Literal(s, q, j)) THEN ParseFailure
    ELSE LET read == Append(items, Unescape(Literal(s, q, j)))
             gap == GapAfter(s, q, j)
         IN IF gap = ", " THEN ParseList(s, q, j + 1, keys, vals, read)
            ELSE IF Len(gap) >= 1 /\ CharAt(gap, 1) = "]"
            THEN AfterValue(s, q, j, SubSeq(gap, 2, Len(gap)), keys, Append(vals, List(read)))
            ELSE ParseFailure

\* the literal number j is a key
ParseMembers(s, q, j, keys, vals) ==
    IF 2 * j > Len(q) \/ ~LiteralValid(Literal(s, q, j)) THEN ParseFailure
    ELSE LET key == Unescape(Literal(s, q, j))
             gap == GapAfter(s, q, j)
             ks == Append(keys, key)
         IN IF gap = ": " /\ 2 * j < Len(q)
            THEN IF LiteralValid(Literal(s, q, j + 1))
                 THEN AfterValue(s, q, j + 1, GapAfter(s, q, j + 1), ks,
                                 Append(vals, Str(Unescape(Literal(s, q, j + 1)))))
                 ELSE ParseFailure
            ELSE IF gap = ": [" THEN ParseList(s, q, j + 1, ks, vals, <<>>)
            ELSE IF Len(gap) >= 6 /\ SubSeq(gap, 1, 6) = ": null"
            THEN AfterValue(s, q, j, SubSeq(gap, 7, Len(gap)), ks, Append(vals, None))
            ELSE IF Len(gap) >= 4 /\ SubSeq(gap, 1, 4) = ": []"
            THEN AfterValue(s, q, j, SubSeq(gap, 5, Len(gap)), ks, Append(vals, List(<<>>)))
            ELSE ParseFailure

RECURSIVE ToDict(_, _, _)
\* the dict of the first k members; a later member replaces an earlier one of the same key
ToDict(keys, vals, k) ==
    IF k = 0 THEN EmptyDict ELSE DictSet(ToDict(keys, vals, k - 1), keys[k], vals[k])

\* the members of the object text, q being the positions of its string delimiters
ParseObject(text, q) ==
    IF text = "{}" THEN [ok |-> TRUE, keys |-> <<>>, vals |-> <<>>]
    ELSE IF Len(q) < 2 \/ Len(q) % 2 = 1 \/ SubSeq(text, 1, q[1] - 1) # "{" THEN ParseFailure
    ELSE ParseMembers(text, q, 1, <<>>, <<>>)

Loaded(parsed) ==
    [ok |-> parsed.ok, keys |-> parsed.keys,
     obj |-> ToDict(parsed.keys, parsed.vals, Len(parsed.keys))]

\* json.loads(text): whether it returns, the keys in document order and the dict
json_loads(text) == Loaded(ParseObject(text, SelectSeq(Indices(text), LAMBDA i : IsDelimiter(text, i))))

(***************************************************************************)
(* Action records and the tool registry                                    *)
(***************************************************************************)
AgentAction(tool, tool_input, log) == [tool |-> tool, tool_input |-> tool_input, log |-> log]

\* keys of controller.tool_map
tool_map == {"rag_retrieve_chunks", "snowflake_query", "web_search", "final_answer"}

\* the placeholder run_oracle writes into a record that run_tool has not resolved yet
Pending == "TBD"

IsResolved(step) == step.log # Pending

(***************************************************************************)
(* final_answer tool                                                       *)
(***************************************************************************)
FinalAnswerRequired == {"research_steps", "historical_performance", "financial_analysis",
                        "industry_insights", "summary", "sources"}

\* insertion order of the dict literal final_answer returns
FinalAnswerOrder == <<"research_steps", "historical_performance", "financial_analysis",
                      "industry_insights", "summary", "analysis_type", "sources">>

\* research_steps / sources: a list becomes "- item" lines, anything else its str()
Bulleted(x) ==
    IF IsList(x) THEN Join([i \in 1..Len(x.v) |-> "- " \o x.v[i]], "\n") ELSE PyStr(x)

\* the dict final_answer returns for an argument bundle that has every required field
final_answer(args) ==
    [k \in {"research_steps", "historical_performance", "financial_analysis",
            "industry_insights", "summary", "analysis_type", "sources"} |->
        IF k = "research_steps" THEN Str(Bulleted(args["research_steps"]))
        ELSE IF k = "sources" THEN Str(Bulleted(args["sources"]))
        ELSE IF k = "analysis_type" THEN DictGet(args, "analysis_type", Str("financial_summary"))
        ELSE args[k]]

(***************************************************************************)
(* Tool adapters.  What the collaborator behind an adapter does is an      *)
(* input of the dispatch: `outcome` names it.                              *)
(***************************************************************************)
\* texts the adapters return
RagChunks == "NVIDIA revenue chunk"
NoDataMarker == "No relevant information found in historical reports."
ErrorMarker == "[X]"
SnowflakeSummary == "NVIDIA Financial Summary (2021-2025): - Market Cap: $1 S3 Chart URLs: https://bucket/market_value_line.png"
SnowflakeNoData == ErrorMarker \o " No data found for 2021-2025."
SnowflakeError == ErrorMarker \o " Error: could not connect to Snowflake backend"
WebReport == "## AI Summary NVIDIA trends ## Top Results:"

RECURSIVE Repeat(_, _)
\* s * n
Repeat(s, n) ==
    IF n = 0 THEN ""
    ELSE IF n = 1 THEN s
    ELSE Repeat(s, n \div 2) \o Repeat(s, n - (n \div 2))

\* "\n\n".join(chunks) of a retrieval with many chunks
LongChunks == Repeat("NVIDIA revenue chunk. ", 420)

Outcomes(tool) ==
    IF tool = "rag_retrieve_chunks" THEN {"chunks", "no_chunks"}
    ELSE IF tool = "snowflake_query" THEN {"rows", "no_rows", "connect_fails"}
    ELSE IF tool = "web_search" THEN {"results", "search_fails"}
    ELSE {"returns"}

\* retrieve_rag_chunks: the retrieved chunks joined to a text, or the no-data marker
retrieve_rag_chunks(args, outcome) ==
    IF outcome = "chunks" THEN RagChunks
    ELSE IF outcome = "many_chunks" THEN LongChunks
    ELSE NoDataMarker

\* snowflake_query_tool: everything query_snowflake raises is caught inside the tool
snowflake_query_tool(args, outcome) ==
    IF outcome = "connect_fails" THEN SnowflakeError
    ELSE IF outcome = "no_rows" THEN SnowflakeNoData
    ELSE SnowflakeSummary

\* web_search_tool has no handler of its own
web_search_tool(args, outcome) == WebReport

\* InvokeRaises with snowflake_query_tool lacking its try/except
InvokeRaises_SnowflakeUncaught(tool, args, outcome) ==
    IF tool = "web_search" /\ "input" \notin DOMAIN args THEN "ValidationError"
    ELSE IF tool = "rag_retrieve_chunks" /\ "query" \notin DOMAIN args THEN "ValidationError"
    ELSE IF tool = "web_search" /\ outcome = "search_fails" THEN "ConnectionError"
    ELSE IF tool = "snowflake_query" /\ outcome = "connect_fails" THEN "ConnectionError"
    ELSE IF tool = "final_answer" /\ ~(FinalAnswerRequired \subseteq DOMAIN args) THEN "ValidationError"
    ELSE "none"

\* the exception tool_fn.invoke(tool_args) raises, "none" when it returns
InvokeRaises(tool, args, outcome) ==
    IF tool = "web_search" /\ "input" \notin DOMAIN args THEN "ValidationError"
    ELSE IF tool = "rag_retrieve_chunks" /\ "query" \notin DOMAIN args THEN "ValidationError"
    ELSE IF tool = "web_search" /\ outcome = "search_fails" THEN "ConnectionError"
    ELSE IF tool = "final_answer" /\ ~(FinalAnswerRequired \subseteq DOMAIN args) THEN "ValidationError"
    ELSE "none"

\* what tool_fn.invoke(tool_args) returns, with whether it is a str
Invoke(tool, args, outcome) ==
    IF tool = "rag_retrieve_chunks" THEN [is_str |-> TRUE, text |-> retrieve_rag_chunks(args, outcome), obj |-> EmptyDict]
    ELSE IF tool = "snowflake_query" THEN [is_str |-> TRUE, text |-> snowflake_query_tool(args, outcome), obj |-> EmptyDict]
    ELSE IF tool = "web_search" THEN [is_str |-> TRUE, text |-> web_search_tool(args, outcome), obj |-> EmptyDict]
    ELSE [is_str |-> FALSE, text |-> "", obj |-> final_answer(args)]

(***************************************************************************)
(* build_scratchpad: the text of the history shown to the model            *)
(***************************************************************************)
\* characters of scratchpad text the model is given
ScratchpadLimit == 12000

\* f"Tool: {step.tool}\nInput: {step.tool_input}\nOutput: {step.log}"
StepText(step) ==
    "Tool: " \o step.tool \o "\nInput: " \o DictRepr(step.tool_input)
        \o "\nOutput: " \o step.log

\* "\n---\n".join(formatted)
JoinedSteps(steps) == Join([i \in 1..Len(steps) |-> StepText(steps[i])], "\n---\n")

\* build_scratchpad without the slice
build_scratchpad_NoCut(steps) == JoinedSteps(steps)

\* the slice [:12000] keeps the first 12000 characters
build_scratchpad(steps) ==
    LET joined == JoinedSteps(steps)
    IN IF Len(joined) > ScratchpadLimit THEN SubSeq(joined, 1, ScratchpadLimit) ELSE joined

(***************************************************************************)
(* run_oracle: Loop Guard and forced final answer                          *)
(***************************************************************************)
\* the scan "step.tool == tool_name and step.tool_input == tool_args" finds a step
LoopGuardHit(steps, tool_name, tool_args) ==
    \E i \in 1..Len(steps) : steps[i].tool = tool_name /\ steps[i].tool_input = tool_args

\* LogsGet with the first step of a tool winning instead of the last
LogsGet_FirstWins(steps, key, dflt) ==
    LET idx == {i \in 1..Len(steps) : steps[i].tool = key}
    IN IF idx = {} THEN dflt
       ELSE steps[CHOOSE i \in idx : \A j \in idx : i <= j].log

\* logs = {s.tool: s.log for s in steps}; logs.get(key, dflt): the last step of a tool wins
LogsGet(steps, key, dflt) ==
    LET idx == {i \in 1..Len(steps) : steps[i].tool = key}
    IN IF idx = {} THEN dflt
       ELSE steps[CHOOSE i \in idx : \A j \in idx : j <= i].log

steps_formatted(steps) ==
    [i \in 1..Len(steps) |->
        "Tool: " \o steps[i].tool \o ", input: " \o DictRepr(steps[i].tool_input)]

\* insertion order of the final_output dict literal
FinalOutputOrder == <<"research_steps", "historical_performance", "financial_analysis",
                      "industry_insights", "summary", "sources", "analysis_type">>

final_output(steps) ==
    [research_steps |-> List(steps_formatted(steps)),
     historical_performance |-> Str(LogsGet(steps, "rag_retrieve_chunks", "N/A")),
     financial_analysis |-> Str(LogsGet(steps, "snowflake_query", "N/A")),
     industry_insights |-> Str(LogsGet(steps, "web_search", "N/A")),
     summary |-> Str("Here is a summary based on the tools used so far."),
     sources |-> List(<<"Pinecone", "Snowflake", "Web Search">>),
     analysis_type |-> Str(LogsGet(steps, "analysis_type", "financial_summary"))]

\* the record run_oracle appends for the tool call the model returned
OracleRecord(steps, tool_name, tool_args) ==
    IF LoopGuardHit(steps, tool_name, tool_args)
    THEN AgentAction("final_answer", final_output(steps),
                     JsonDumps(final_output(steps), FinalOutputOrder))
    ELSE AgentAction(tool_name, tool_args, Pending)

\* reducer of AgentState.intermediate_steps: the channel's value plus the node's update
operator_add(current, update) == current \o update

(***************************************************************************)
(* run_tool: argument normalization                                        *)
(***************************************************************************)
DefaultQuery == "Give me a financial analysis"

\* rag_retrieve_chunks results longer than this are cut
RagLogLimit == 8000

\* InjectFilter that keeps a year / quarter the model wrote
InjectFilter_SetDefault(tool, args, y, q) ==
    IF tool \in {"rag_retrieve_chunks", "snowflake_query"}
    THEN DictSet(DictSet(args, "year", DictGet(args, "year", y)),
                 "quarter", DictGet(args, "quarter", q))
    ELSE args

\* tool_args["year"] = state.get("year"); tool_args["quarter"] = state.get("quarter")
InjectFilter(tool, args, y, q) ==
    IF tool \in {"rag_retrieve_chunks", "snowflake_query"}
    THEN DictSet(DictSet(args, "year", y), "quarter", q)
    ELSE args

\* tool_args["quarter"][0] on an empty list
FlattenRaises(tool, args) ==
    /\ tool = "rag_retrieve_chunks"
    /\ IsList(DictGet(args, "quarter", None))
    /\ Len(args["quarter"].v) = 0

\* FlattenQuarter that leaves the list as it is
FlattenQuarter_Never(tool, args) == args

\* tool_args["quarter"] = tool_args["quarter"][0]
FlattenQuarter(tool, args) ==
    IF tool = "rag_retrieve_chunks" /\ IsList(DictGet(args, "quarter", None))
    THEN DictSet(args, "quarter", Str(args["quarter"].v[1]))
    ELSE args

\* snowflake_query: "input" is renamed to "query", a missing query gets the default
RenameQuery(tool, args) ==
    IF tool = "snowflake_query"
    THEN LET popped == IF "input" \in DOMAIN args
                       THEN DictSet(DictPop(args, "input"), "query", args["input"])
                       ELSE args
         IN DictSet(popped, "query", DictGet(popped, "query", Str(DefaultQuery)))
    ELSE args

\* the argument bundle after run_tool's normalization (which does not raise)
NormalizeArgs(tool, args, y, q) ==
    RenameQuery(tool, FlattenQuarter(tool, InjectFilter(tool, args, y, q)))

\* LogStr that leaves the placeholder in place of the result
LogStr_Unresolved(tool, result) == Pending

\* log_str of run_tool
LogStr(tool, result) ==
    LET log_str == IF result.is_str THEN result.text
                   ELSE JsonDumps(result.obj, FinalAnswerOrder)
    IN IF tool = "rag_retrieve_chunks" /\ Len(log_str) > RagLogLimit
       THEN SubSeq(log_str, 1, RagLogLimit)
       ELSE log_str

(***************************************************************************)
(* Requests and Decision Step outputs                                      *)
(***************************************************************************)
AllTools == <<"rag_retrieve_chunks", "snowflake_query", "web_search", "final_answer">>

ToolLists == {AllTools,
              <<"rag_retrieve_chunks", "final_answer">>,
              <<"web_search">>,
              <<"web_search", "stock_price">>}

Filters == {[year |-> None, quarter |-> None],
            [year |-> Str("2024"), quarter |-> List(<<"Q1", "Q2">>)]}

Requests == {[query |-> "total revenue", year |-> f.year, quarter |-> f.quarter, tools |-> ts] :
                f \in Filters, ts \in ToolLists}

\* argument bundles the model may put into a retrieval / query / search call
QueryBundles ==
    {[query |-> Str("X")],
     [input |-> Str("X")],
     [query |-> Str("X"), year |-> None, quarter |-> None]}

\* argument bundles the model may put into a final_answer call
FinalBundles ==
    {[research_steps |-> List(<<"searched">>), historical_performance |-> Str("h"),
      financial_analysis |-> Str("f"), industry_insights |-> Str("w"),
      summary |-> Str("a \"record\" quarter\\year"), sources |-> List(<<"Pinecone">>)],
     [research_steps |-> List(<<"searched">>),
      financial_analysis |-> Str("f"), industry_insights |-> Str("w"),
      summary |-> Str("s"), sources |-> List(<<"Pinecone">>)]}

Range(s) == {s[i] : i \in 1..Len(s)}

\* tool calls the model can return when bound to the selected tools (tool_choice="any")
ToolCalls(selected) ==
    {<<t, a>> : t \in Range(selected) \ {"final_answer"}, a \in QueryBundles}
    \cup {<<t, a>> : t \in Range(selected) \cap {"final_answer"}, a \in FinalBundles}

(***************************************************************************)
(* State                                                                   *)
(***************************************************************************)
NoFault == [exc |-> "none", at |-> "none"]
NoCall == <<"none", EmptyDict>>
NoResponse == [status |-> 0, answer |-> EmptyDict, detail |-> EmptyDict]

\* chart file names save_chart is called with
ChartFiles == {"market_value_line.png", "peg_ratio_bar.png", "enterprise_multiples_bar.png"}

\* agent_outcome before the first decision, and after run_tool reset it
NoOutcome == [kind |-> "none", tool |-> "none", tool_input |-> EmptyDict]

\* no ResearchOrchestrator was constructed
NoOrchestrator == [pc |-> "none"]

Absent == "absent"
NoFiles == [f \in ChartFiles |-> Absent]
NoObjects == [f \in ChartFiles |-> Absent]

Init ==
    /\ request \in Requests
    /\ input = request.query
    /\ year = request.year
    /\ quarter = request.quarter
    /\ intermediate_steps = <<>>
    /\ pc = "start"
    /\ nsteps = 0
    /\ scratchpad = ""
    /\ tool_call = NoCall
    /\ proposals = {}
    /\ dispatches = 0
    /\ collaborator = "none"
    /\ fault = NoFault
    /\ response = NoResponse
    /\ decisions = <<>>
    /\ agent_outcome = NoOutcome
    /\ orchestrator = NoOrchestrator
    /\ files = NoFiles
    /\ bucket = NoObjects
    /\ workers = <<>>

Raise(exc, at) ==
    /\ pc' = "raised"
    /\ fault' = [exc |-> exc, at |-> at]

(***************************************************************************)
(* build_graph: the conditional edge after "oracle" and the fixed edges    *)
(* after the tool nodes                                                    *)
(***************************************************************************)
\* route_agent: the node named by the last record
route_agent(steps) == Last(steps).tool

\* ToolEdge with every tool node, final_answer included, leading back to "oracle"
ToolEdge_AllToOracle(node) == "oracle"

\* add_edge(tool, END) for final_answer, add_edge(tool, "oracle") for the others
ToolEdge(node) == IF node = "final_answer" THEN "END" ELSE "oracle"

(***************************************************************************)
(* run_research_agent: initialize_oracle looks every requested tool up     *)
(***************************************************************************)
InitializeOracle ==
    /\ pc = "start"
    /\ IF \E i \in 1..Len(request.tools) : request.tools[i] \notin tool_map
       THEN Raise("KeyError", "initialize_oracle")
       ELSE pc' = "oracle" /\ fault' = fault
    /\ UNCHANGED <<chart_vars, side_vars, request, input, year, quarter, intermediate_steps, nsteps, scratchpad,
                   tool_call, proposals, dispatches, collaborator, response>>

(***************************************************************************)
(* Node "oracle": run_oracle, then route_agent                             *)
(***************************************************************************)
RunOracle ==
    /\ pc = "oracle"
    /\ nsteps < RecursionLimit
    /\ scratchpad' = build_scratchpad(intermediate_steps)
    /\ \E call \in ToolCalls(request.tools) :
        LET record == OracleRecord(intermediate_steps, call[1], call[2])
        IN /\ tool_call' = call
           /\ proposals' = proposals \cup {call}
           /\ intermediate_steps' =
                  operator_add(intermediate_steps, intermediate_steps \o <<record>>)
           /\ pc' = route_agent(intermediate_steps')
    /\ nsteps' = nsteps + 1
    /\ UNCHANGED <<chart_vars, side_vars, request, input, year, quarter, dispatches, collaborator, fault, response>>

\* the model's message carries no tool call: output.tool_calls[0] raises
OracleFails ==
    /\ pc = "oracle"
    /\ nsteps < RecursionLimit
    /\ scratchpad' = build_scratchpad(intermediate_steps)
    /\ Raise("IndexError", "run_oracle")
    /\ nsteps' = nsteps + 1
    /\ UNCHANGED <<chart_vars, side_vars, request, input, year, quarter, intermediate_steps,
                   tool_call, proposals, dispatches, collaborator, response>>

(***************************************************************************)
(* Tool nodes: run_tool, then the edge to "oracle" or END                  *)
(***************************************************************************)
\* run_tool when the collaborator behind the adapter does `outcome`
Dispatch(outcome) ==
    /\ pc \in tool_map
    /\ nsteps < RecursionLimit
    /\ collaborator' = outcome
    /\ LET current_action == Last(intermediate_steps)
           tool == current_action.tool
           injected == InjectFilter(tool, current_action.tool_input, year, quarter)
           index_error == FlattenRaises(tool, injected)
           tool_args == IF index_error THEN injected
                        ELSE NormalizeArgs(tool, current_action.tool_input, year, quarter)
           exc == IF index_error THEN "IndexError"
                  ELSE InvokeRaises(tool, tool_args, outcome)
           \* tool_args is current_action.tool_input itself: the stored record is edited
           edited == [intermediate_steps EXCEPT
                         ![Len(intermediate_steps)].tool_input = tool_args]
           result == Invoke(tool, tool_args, outcome)
           updated_action == AgentAction(tool, tool_args, LogStr(tool, result))
       IN IF exc # "none"
          THEN /\ Raise(exc, "run_tool")
               /\ intermediate_steps' = edited
          ELSE /\ intermediate_steps' = operator_add(edited, edited \o <<updated_action>>)
               /\ pc' = ToolEdge(pc)
               /\ fault' = fault
    /\ nsteps' = nsteps + 1
    /\ dispatches' = dispatches + 1
    /\ UNCHANGED <<chart_vars, side_vars, request, input, year, quarter, scratchpad, tool_call,
                   proposals, response>>

RunTool == \E outcome \in Outcomes(pc) : Dispatch(outcome)

(***************************************************************************)
(* The compiled graph stops a session that is still running after          *)
(* RecursionLimit supersteps                                               *)
(***************************************************************************)
GraphRecursion ==
    /\ pc \in tool_map \cup {"oracle"}
    /\ nsteps = RecursionLimit
    /\ Raise("GraphRecursionError", "invoke")
    /\ UNCHANGED <<chart_vars, side_vars, request, input, year, quarter, intermediate_steps, nsteps, scratchpad,
                   tool_call, proposals, dispatches, collaborator, response>>

(***************************************************************************)
(* query_nvidia_documents: the answer, or the error envelope               *)
(***************************************************************************)
\* Answer without the fallbacks: whatever the parse gives is returned
Answer_NoFallback(steps) == json_loads(Last(steps).log).obj

Answer(steps) ==
    LET last_step == Last(steps)
        result == last_step.log
        parsed_result == json_loads(result)
    IN IF last_step.tool = "final_answer" /\ parsed_result.ok
       THEN parsed_result.obj
       ELSE [summary |-> Str(result)]

\* Respond without the handler's except clause
Respond_NoExcept ==
    /\ pc = "END"
    /\ response = NoResponse
    /\ response' = [status |-> 200, answer |-> Answer(intermediate_steps), detail |-> EmptyDict]
    /\ UNCHANGED <<chart_vars, side_vars, request, input, year, quarter, intermediate_steps, pc, nsteps, scratchpad,
                   tool_call, proposals, dispatches, collaborator, fault>>

Respond ==
    /\ pc \in {"END", "raised"}
    /\ response = NoResponse
    /\ response' =
          IF pc = "END"
          THEN [status |-> 200, answer |-> Answer(intermediate_steps), detail |-> EmptyDict]
          ELSE [status |-> 500, answer |-> EmptyDict,
                detail |-> [error |-> fault.exc,
                            traceback |-> "Traceback (most recent call last): " \o fault.at]]
    /\ UNCHANGED <<chart_vars, side_vars, request, input, year, quarter, intermediate_steps, pc, nsteps, scratchpad,
                   tool_call, proposals, dispatches, collaborator, fault>>

Next ==
    \/ InitializeOracle
    \/ RunOracle
    \/ OracleFails
    \/ RunTool
    \/ GraphRecursion
    \/ Respond

Spec == Init /\ [][Next]_vars

\* the handler runs to completion: no step of a request waits for anything
FairSpec == Spec /\ WF_vars(Next)

(***************************************************************************)
(* build_scratchpad on histories with long tool outputs.  The histories    *)
(* are grown record by record from resolved records as run_tool writes     *)
(* them (a retrieval output above the 8000-character cut, a long web       *)
(* report, short outputs) and a pending record; the Decision Step's input  *)
(* mapping builds the scratchpad text of the history it is given.          *)
(***************************************************************************)
\* web report with many results
LongWebReport == WebReport \o Repeat(" - NVIDIA news item", 260)

TextResult(text) == [is_str |-> TRUE, text |-> text, obj |-> EmptyDict]

ScratchRecords ==
    {AgentAction("rag_retrieve_chunks",
                 NormalizeArgs("rag_retrieve_chunks", [query |-> Str("X")], None, None),
                 LogStr("rag_retrieve_chunks", TextResult(LongChunks))),
     AgentAction("rag_retrieve_chunks",
                 NormalizeArgs("rag_retrieve_chunks", [query |-> Str("X")], None, None),
                 LogStr("rag_retrieve_chunks", TextResult(NoDataMarker))),
     AgentAction("web_search", [input |-> Str("X")],
                 LogStr("web_search", TextResult(LongWebReport))),
     AgentAction("snowflake_query",
                 NormalizeArgs("snowflake_query", [input |-> Str("X")], None, None),
                 LogStr("snowflake_query", TextResult(SnowflakeSummary))),
     AgentAction("web_search", [input |-> Str("Y")], Pending)}

ScratchInit ==
    /\ request = [query |-> "total revenue", year |-> None, quarter |-> None, tools |-> AllTools]
    /\ input = request.query
    /\ year = request.year
    /\ quarter = request.quarter
    /\ intermediate_steps = <<>>
    /\ pc = "oracle"
    /\ nsteps = 0
    /\ scratchpad = ""
    /\ tool_call = NoCall
    /\ proposals = {}
    /\ dispatches = 0
    /\ collaborator = "none"
    /\ fault = NoFault
    /\ response = NoResponse
    /\ decisions = <<>>
    /\ agent_outcome = NoOutcome
    /\ orchestrator = NoOrchestrator
    /\ files = NoFiles
    /\ bucket = NoObjects
    /\ workers = <<>>

\* one more record in the history
ScratchRecord ==
    /\ Len(intermediate_steps) < MaxHistory
    /\ \E record \in ScratchRecords : intermediate_steps' = intermediate_steps \o <<record>>
    /\ UNCHANGED <<chart_vars, side_vars, request, input, year, quarter, pc, nsteps, scratchpad,
                   tool_call, proposals, dispatches, collaborator, fault, response>>

\* "scratchpad": lambda x: build_scratchpad(x["intermediate_steps"])
ScratchOracle ==
    /\ scratchpad' = build_scratchpad(intermediate_steps)
    /\ UNCHANGED <<chart_vars, side_vars, request, input, year, quarter, intermediate_steps, pc, nsteps,
                   tool_call, proposals, dispatches, collaborator, fault, response>>

ScratchNext ==
    \/ ScratchRecord
    \/ ScratchOracle

ScratchpadSpec == ScratchInit /\ [][ScratchNext]_vars

(***************************************************************************)
(* snowflake_query_tool opened up: two sessions, each inside its           *)
(* snowflake_query dispatch, served by processes that share the working    *)
(* directory and the S3 bucket.  A step is one call of the tool's body:    *)
(* query_snowflake, plt.savefig, s3_client.upload_file, the return.        *)
(***************************************************************************)
Sessions == {"s1", "s2"}

\* what the table holds when query_snowflake reads it
Snapshots == {"rows_2024", "rows_2025"}

\* what query_snowflake does: a data frame, an empty one, or an exception
TableResults == Snapshots \cup {"empty", "fails"}

\* user queries with the keywords snowflake_query_tool finds in them
QueryKeywords == [peg_ratio |-> {"peg"}, market_cap |-> {"market cap"}, total_revenue |-> {}]

UserQueries == DOMAIN QueryKeywords

\* the filenames of the save_chart calls the tool makes for a query, in order
ChartJobs(user_query) ==
    LET kw == QueryKeywords[user_query]
        peg == IF "peg" \in kw THEN <<"peg_ratio_bar.png">> ELSE <<>>
        valuation == IF kw \cap {"market cap", "valuation", "enterprise value"} # {}
                     THEN <<"market_value_line.png">> ELSE <<>>
        multiples == IF kw \cap {"ev/ebitda", "multiple"} # {}
                     THEN <<"enterprise_multiples_bar.png">> ELSE <<>>
        asked == peg \o valuation \o multiples
    IN IF asked = <<>>
       THEN <<"market_value_line.png", "peg_ratio_bar.png", "enterprise_multiples_bar.png">>
       ELSE asked

\* the figure save_chart draws from a data frame
Chart(filename, df) == [file |-> filename, data |-> df]

\* upload_to_s3: the key is the folder plus the file's base name
S3Url(filename) == "https://bucket.s3.region.amazonaws.com/Reports/Charts/" \o filename

\* the text the tool returns
ToolResult(df, charts) ==
    IF df = "fails" THEN SnowflakeError
    ELSE IF df = "empty" THEN SnowflakeNoData
    ELSE "NVIDIA Financial Summary (2021-2025): latest of " \o df
            \o " S3 Chart URLs: " \o Join(charts, " ")

ChartInit ==
    /\ request = [query |-> "total revenue", year |-> None, quarter |-> None, tools |-> AllTools]
    /\ input = request.query
    /\ year = request.year
    /\ quarter = request.quarter
    /\ intermediate_steps = <<>>
    /\ pc = "snowflake_query"
    /\ nsteps = 0
    /\ scratchpad = ""
    /\ tool_call = NoCall
    /\ proposals = {}
    /\ dispatches = 0
    /\ collaborator = "none"
    /\ fault = NoFault
    /\ response = NoResponse
    /\ decisions = <<>>
    /\ agent_outcome = NoOutcome
    /\ orchestrator = NoOrchestrator
    /\ files = NoFiles
    /\ bucket = NoObjects
    /\ workers \in [Sessions -> {[pc |-> "called", query |-> q, df |-> "none", todo |-> <<>>,
                                  charts |-> <<>>, uploaded |-> <<>>, result |-> ""] :
                                    q \in UserQueries}]

\* df = query_snowflake(sql); an exception or an empty frame ends the call
QuerySnowflake(s) ==
    /\ workers[s].pc = "called"
    /\ \E df \in TableResults :
          workers' = [workers EXCEPT
              ![s].df = df,
              ![s].todo = IF df \in Snapshots THEN ChartJobs(workers[s].query) ELSE <<>>,
              ![s].pc = IF df \in Snapshots THEN "savefig" ELSE "return"]
    /\ UNCHANGED <<session_vars, side_vars, files, bucket>>

\* save_chart up to plt.savefig(filename)
SaveFig(s) ==
    /\ workers[s].pc = "savefig"
    /\ files' = [files EXCEPT ![Head(workers[s].todo)] = Chart(Head(workers[s].todo), workers[s].df)]
    /\ workers' = [workers EXCEPT ![s].pc = "upload"]
    /\ UNCHANGED <<session_vars, side_vars, bucket>>

\* upload_to_s3(filename): the file as it is now goes under the file's key
UploadToS3(s) ==
    /\ workers[s].pc = "upload"
    /\ LET filename == Head(workers[s].todo)
       IN /\ bucket' = [bucket EXCEPT ![filename] = files[filename]]
          /\ workers' = [workers EXCEPT
                ![s].uploaded = Append(workers[s].uploaded, files[filename]),
                ![s].charts = Append(workers[s].charts, S3Url(filename)),
                ![s].todo = Tail(workers[s].todo),
                ![s].pc = IF Tail(workers[s].todo) = <<>> THEN "return" ELSE "savefig"]
    /\ UNCHANGED <<session_vars, side_vars, files>>

\* the tool returns its text
ToolReturns(s) ==
    /\ workers[s].pc = "return"
    /\ workers' = [workers EXCEPT
          ![s].result = ToolResult(workers[s].df, workers[s].charts),
          ![s].pc = "returned"]
    /\ UNCHANGED <<session_vars, side_vars, files, bucket>>

ChartNext ==
    \/ \E s \in Sessions : QuerySnowflake(s)
    \/ \E s \in Sessions : SaveFig(s)
    \/ \E s \in Sessions : UploadToS3(s)
    \/ \E s \in Sessions : ToolReturns(s)

ChartSpec == ChartInit /\ [][ChartNext]_vars

(***************************************************************************)
(* query_nvidia_documents from the return of agent.invoke on: the handler  *)
(* reads the last record of the final state it is handed, whatever graph   *)
(* produced it.  The final states are histories that end in a final_answer *)
(* record with a JSON log, in a final_answer record whose log is not JSON, *)
(* or in a record of another tool.                                         *)
(***************************************************************************)
CompleteBundle ==
    [research_steps |-> List(<<"searched">>), historical_performance |-> Str("h"),
     financial_analysis |-> Str("f"), industry_insights |-> Str("w"),
     summary |-> Str("a \"record\" quarter\\year"), sources |-> List(<<"Pinecone">>)]

\* log of the final_answer record run_tool writes for CompleteBundle
CompleteLog == LogStr("final_answer", Invoke("final_answer", CompleteBundle, "returns"))

\* last records of a final state: the record, whether json.loads accepts its log, and the
\* value the log was written from
HandlerCases ==
    {[record |-> AgentAction("final_answer", CompleteBundle, CompleteLog),
      parses |-> TRUE, report |-> final_answer(CompleteBundle)],
     [record |-> AgentAction("final_answer", final_output(<<>>),
                             JsonDumps(final_output(<<>>), FinalOutputOrder)),
      parses |-> TRUE, report |-> final_output(<<>>)],
     [record |-> AgentAction("final_answer", CompleteBundle, SubSeq(CompleteLog, 1, 40)),
      parses |-> FALSE, report |-> EmptyDict],
     [record |-> AgentAction("final_answer", CompleteBundle, Pending),
      parses |-> FALSE, report |-> EmptyDict],
     [record |-> AgentAction("final_answer", CompleteBundle, ""),
      parses |-> FALSE, report |-> EmptyDict],
     [record |-> AgentAction("web_search", [input |-> Str("X")], WebReport),
      parses |-> FALSE, report |-> EmptyDict],
     [record |-> AgentAction("web_search", [input |-> Str("X")], CompleteLog),
      parses |-> TRUE, report |-> final_answer(CompleteBundle)],
     [record |-> AgentAction("snowflake_query",
                             NormalizeArgs("snowflake_query", [input |-> Str("X")], None, None),
                             SnowflakeError),
      parses |-> FALSE, report |-> EmptyDict]}

FinalRecords == {c.record : c \in HandlerCases}

\* final_state["intermediate_steps"]
FinalStates ==
    {front \o <<last>> : front \in {<<>>} \cup {<<r>> : r \in FinalRecords},
                         last \in FinalRecords}

HandlerInit ==
    /\ request = [query |-> "total revenue", year |-> None, quarter |-> None, tools |-> AllTools]
    /\ input = request.query
    /\ year = request.year
    /\ quarter = request.quarter
    /\ intermediate_steps = <<>>
    /\ pc = "invoke"
    /\ nsteps = 0
    /\ scratchpad = ""
    /\ tool_call = NoCall
    /\ proposals = {}
    /\ dispatches = 0
    /\ collaborator = "none"
    /\ fault = NoFault
    /\ response = NoResponse
    /\ decisions = <<>>
    /\ agent_outcome = NoOutcome
    /\ orchestrator = NoOrchestrator
    /\ files = NoFiles
    /\ bucket = NoObjects
    /\ workers = <<>>

\* final_state = agent.invoke(initial_state)
InvokeReturns ==
    /\ pc = "invoke"
    /\ intermediate_steps' \in FinalStates
    /\ pc' = "END"
    /\ UNCHANGED <<chart_vars, side_vars, request, input, year, quarter, nsteps, scratchpad,
                   tool_call, proposals, dispatches, collaborator, fault, response>>

HandlerNext ==
    \/ InvokeReturns
    \/ Respond

HandlerSpec == HandlerInit /\ [][HandlerNext]_vars

(***************************************************************************)
(* The duplicate check of run_oracle on its own: the scan of the history   *)
(* for the proposed tool call and the forced report it builds on a hit,    *)
(* evaluated more than once for one history and one proposed call.         *)
(***************************************************************************)
\* records of a history: resolved as run_tool writes them, and a pending one
GuardRecords ==
    {AgentAction("web_search", [input |-> Str("X")], WebReport),
     AgentAction("rag_retrieve_chunks",
                 NormalizeArgs("rag_retrieve_chunks", [query |-> Str("X")], None, None),
                 RagChunks),
     AgentAction("snowflake_query",
                 NormalizeArgs("snowflake_query", [input |-> Str("X")], None, None),
                 SnowflakeSummary),
     AgentAction("web_search", [input |-> Str("X")], Pending)}

GuardInit ==
    /\ request = [query |-> "total revenue", year |-> None, quarter |-> None, tools |-> AllTools]
    /\ input = request.query
    /\ year = request.year
    /\ quarter = request.quarter
    /\ intermediate_steps = <<>>
    /\ pc = "oracle"
    /\ nsteps = 0
    /\ scratchpad = ""
    /\ tool_call = NoCall
    /\ proposals = {}
    /\ dispatches = 0
    /\ collaborator = "none"
    /\ fault = NoFault
    /\ response = NoResponse
    /\ decisions = <<>>
    /\ agent_outcome = NoOutcome
    /\ orchestrator = NoOrchestrator
    /\ files = NoFiles
    /\ bucket = NoObjects
    /\ workers = <<>>

\* one more record in the history the check will be given
GuardRecord ==
    /\ tool_call = NoCall
    /\ Len(intermediate_steps) < MaxHistory
    /\ \E record \in GuardRecords : intermediate_steps' = intermediate_steps \o <<record>>
    /\ UNCHANGED <<chart_vars, side_vars, request, input, year, quarter, pc, nsteps, scratchpad,
                   tool_call, proposals, dispatches, collaborator, fault, response>>

\* tool_call = output.tool_calls[0]
GuardPropose ==
    /\ tool_call = NoCall
    /\ tool_call' \in ToolCalls(request.tools)
    /\ UNCHANGED <<chart_vars, side_vars, request, input, year, quarter, intermediate_steps, pc,
                   nsteps, scratchpad, proposals, dispatches, collaborator, fault, response>>

\* GuardCheck that also stores the record it built in the history
GuardCheck_Recording ==
    /\ tool_call # NoCall
    /\ Len(decisions) < 2
    /\ decisions' = Append(decisions,
          [forced |-> LoopGuardHit(intermediate_steps, tool_call[1], tool_call[2]),
           record |-> OracleRecord(intermediate_steps, tool_call[1], tool_call[2])])
    /\ intermediate_steps' = intermediate_steps
          \o <<OracleRecord(intermediate_steps, tool_call[1], tool_call[2])>>
    /\ UNCHANGED <<chart_vars, agent_outcome, orchestrator, request, input, year, quarter,
                   pc, nsteps, scratchpad, tool_call, proposals, dispatches,
                   collaborator, fault, response>>

\* the for loop of run_oracle and the record it leads to: reads the history and the
\* proposed call, writes neither
GuardCheck ==
    /\ tool_call # NoCall
    /\ Len(decisions) < 2
    /\ decisions' = Append(decisions,
          [forced |-> LoopGuardHit(intermediate_steps, tool_call[1], tool_call[2]),
           record |-> OracleRecord(intermediate_steps, tool_call[1], tool_call[2])])
    /\ UNCHANGED <<chart_vars, agent_outcome, orchestrator, request, input, year, quarter,
                   intermediate_steps, pc, nsteps, scratchpad, tool_call, proposals, dispatches,
                   collaborator, fault, response>>

GuardNext ==
    \/ GuardRecord
    \/ GuardPropose
    \/ GuardCheck

GuardSpec == GuardInit /\ [][GuardNext]_vars

(***************************************************************************)
(* run_tool on the first dispatch of a session, for every filter context   *)
(* a request can carry (year and quarter absent or present, the quarter    *)
(* list empty or not), for argument bundles in which the model wrote its   *)
(* own year and quarter or nothing at all, and for a retrieval that        *)
(* returns more text than run_tool keeps.                                  *)
(***************************************************************************)
\* NVIDIARequest: year: Optional[str], quarter: Optional[List[str]]
DispatchFilters ==
    {[year |-> y, quarter |-> q] : y \in {None, Str("2024")},
                                   q \in {None, List(<<>>), List(<<"Q1", "Q2">>)}}

DispatchBundles ==
    QueryBundles \cup {EmptyDict,
                       [query |-> Str("X"), year |-> Str("1999"), quarter |-> Str("Q4")],
                       [input |-> Str("X"), year |-> Str("1999")]}

\* the first tool call of the model
DispatchCalls ==
    {<<t, a>> : t \in tool_map \ {"final_answer"}, a \in DispatchBundles}
    \cup {<<"final_answer", a>> : a \in FinalBundles}

\* what the collaborator can do besides Outcomes: a retrieval with many chunks
LongOutcomes(tool) == IF tool = "rag_retrieve_chunks" THEN {"many_chunks"} ELSE {}

\* the session after initialize_oracle and the first run_oracle
DispatchInit ==
    /\ \E f \in DispatchFilters :
          request = [query |-> "total revenue", year |-> f.year, quarter |-> f.quarter,
                     tools |-> AllTools]
    /\ input = request.query
    /\ year = request.year
    /\ quarter = request.quarter
    /\ tool_call \in DispatchCalls
    /\ intermediate_steps = <<OracleRecord(<<>>, tool_call[1], tool_call[2])>>
    /\ pc = route_agent(intermediate_steps)
    /\ nsteps = 1
    /\ scratchpad = build_scratchpad(<<>>)
    /\ proposals = {tool_call}
    /\ dispatches = 0
    /\ collaborator = "none"
    /\ fault = NoFault
    /\ response = NoResponse
    /\ decisions = <<>>
    /\ agent_outcome = NoOutcome
    /\ orchestrator = NoOrchestrator
    /\ files = NoFiles
    /\ bucket = NoObjects
    /\ workers = <<>>

RunToolOnce == \E outcome \in Outcomes(pc) \cup LongOutcomes(pc) : Dispatch(outcome)

DispatchNext == RunToolOnce

DispatchSpec == DispatchInit /\ [][DispatchNext]_vars

(***************************************************************************)
(* langgraph_controller.py: the agent-executor variant.  The model is      *)
(* called with tool_choice "auto"; its message is parsed to a tool action  *)
(* or to an AgentFinish and kept in agent_outcome; run_tool catches what   *)
(* the tool raises; intermediate_steps has no merge rule.  chat_history    *)
(* repeats the tool responses of intermediate_steps and is not modelled.   *)
(***************************************************************************)
\* keys of the tool_map of init_research_agent and run_tool
VariantTools == {"vector_search", "snowflake_query", "web_search", "final_answer"}

VariantToolLists ==
    {<<"vector_search", "snowflake_query", "web_search", "final_answer">>,
     <<"web_search", "final_answer">>,
     <<"rag_retrieve_chunks", "final_answer">>}

\* argument bundles the model may write
VariantBundles ==
    {[input |-> Str("X")],
     [query |-> Str("X")],
     [input |-> Str("X"), year |-> Str("2024"), quarter |-> List(<<"Q1">>)]}

AgentFinish == [kind |-> "finish", tool |-> "none", tool_input |-> EmptyDict]

ToolAgentAction(tool, tool_input) == [kind |-> "action", tool |-> tool, tool_input |-> tool_input]

\* what ToolsAgentOutputParser can return for a model bound to the selected tools
AgentOutcomes(selected) ==
    {AgentFinish} \cup {ToolAgentAction(t, a) : t \in Range(selected), a \in VariantBundles}

\* router: AgentFinish goes to "final_answer", an action to the node of its tool
router(outcome) == IF outcome.kind = "finish" THEN "final_answer" ELSE outcome.tool

\* tool_map[tool_name].invoke(tool_input) inside try / except: the text of the result,
\* or of the exception
VariantResult(tool, tool_input, outcome) ==
    IF outcome = "raises" THEN "Tool " \o tool \o " encountered an error: failure"
    ELSE IF tool = "vector_search" THEN RagChunks
    ELSE IF tool = "snowflake_query" THEN SnowflakeSummary
    ELSE IF tool = "web_search" THEN WebReport
    ELSE "Final Answer: " \o PyStr(DictGet(tool_input, "input", None))

\* parameters without a default in the signatures of the tools
VariantRequired ==
    [vector_search |-> {"input", "year", "quarter"}, snowflake_query |-> {"query"},
     web_search |-> {"input"}, final_answer |-> {"input"}]

\* a call that lacks a required argument raises a validation error; otherwise the
\* collaborator behind the tool answers or fails
VariantOutcomes(tool, tool_input) ==
    IF VariantRequired[tool] \subseteq DOMAIN tool_input THEN {"returns", "raises"}
    ELSE {"raises"}

VariantInit ==
    /\ \E ts \in VariantToolLists :
          request = [query |-> "total revenue", year |-> Str("2024"),
                     quarter |-> List(<<"Q1", "Q2">>), tools |-> ts]
    /\ input = request.query
    /\ year = request.year
    /\ quarter = request.quarter
    /\ intermediate_steps = <<>>
    /\ pc = "start"
    /\ nsteps = 0
    /\ scratchpad = ""
    /\ tool_call = NoCall
    /\ proposals = {}
    /\ dispatches = 0
    /\ collaborator = "none"
    /\ fault = NoFault
    /\ response = NoResponse
    /\ decisions = <<>>
    /\ agent_outcome = NoOutcome
    /\ orchestrator = NoOrchestrator
    /\ files = NoFiles
    /\ bucket = NoObjects
    /\ workers = <<>>

\* create_graph: init_research_agent looks every selected tool up
CreateGraph ==
    /\ pc = "start"
    /\ IF \E i \in 1..Len(request.tools) : request.tools[i] \notin VariantTools
       THEN Raise("KeyError", "init_research_agent")
       ELSE pc' = "oracle" /\ fault' = fault
    /\ UNCHANGED <<chart_vars, side_vars, request, input, year, quarter, intermediate_steps,
                   nsteps, scratchpad, tool_call, proposals, dispatches, collaborator, response>>

\* node "oracle": run_oracle stores the parsed message, then router
VariantOracle ==
    /\ pc = "oracle"
    /\ nsteps < RecursionLimit
    /\ agent_outcome' \in AgentOutcomes(request.tools)
    /\ pc' = router(agent_outcome')
    /\ nsteps' = nsteps + 1
    /\ UNCHANGED <<chart_vars, decisions, orchestrator, request, input, year, quarter,
                   intermediate_steps, scratchpad, tool_call, proposals, dispatches,
                   collaborator, fault, response>>

\* tool nodes: run_tool, then the edge to "oracle" or END
VariantTool ==
    /\ pc \in VariantTools
    /\ nsteps < RecursionLimit
    /\ nsteps' = nsteps + 1
    /\ IF agent_outcome = NoOutcome
       THEN /\ Raise("ValueError", "run_tool")
            /\ UNCHANGED <<intermediate_steps, agent_outcome, collaborator, dispatches>>
       ELSE IF agent_outcome = AgentFinish
       THEN /\ pc' = ToolEdge(pc)
            /\ UNCHANGED <<intermediate_steps, agent_outcome, collaborator, dispatches, fault>>
       ELSE \E outcome \in VariantOutcomes(agent_outcome.tool, agent_outcome.tool_input) :
              /\ collaborator' = outcome
              /\ intermediate_steps' = intermediate_steps \o
                    <<AgentAction(agent_outcome.tool, agent_outcome.tool_input,
                                  VariantResult(agent_outcome.tool, agent_outcome.tool_input,
                                                outcome))>>
              /\ agent_outcome' = NoOutcome
              /\ dispatches' = dispatches + 1
              /\ pc' = ToolEdge(pc)
              /\ fault' = fault
    /\ UNCHANGED <<chart_vars, decisions, orchestrator, request, input, year, quarter,
                   scratchpad, tool_call, proposals, response>>

\* the compiled graph stops a session that is still running after RecursionLimit supersteps
VariantRecursion ==
    /\ pc \in VariantTools \cup {"oracle"}
    /\ nsteps = RecursionLimit
    /\ Raise("GraphRecursionError", "invoke")
    /\ UNCHANGED <<chart_vars, side_vars, request, input, year, quarter, intermediate_steps,
                   nsteps, scratchpad, tool_call, proposals, dispatches, collaborator, response>>

VariantNext ==
    \/ CreateGraph
    \/ VariantOracle
    \/ VariantTool
    \/ VariantRecursion

VariantSpec == VariantInit /\ [][VariantNext]_vars

\* graph.invoke runs the nodes one after the other without waiting for anything
FairVariantSpec == VariantSpec /\ WF_vars(VariantNext)

(***************************************************************************)
(* backend/langgraph/orchestrator.py: ResearchOrchestrator.run queries the *)
(* enabled agents one after the other, each inside its own try / except,   *)
(* synthesizes when more than one agent is active, and returns the report; *)
(* generate_research of backend/app.py returns what run returned.          *)
(***************************************************************************)
\* the order in which __init__ fills active_agents and run queries
AgentOrder == <<"rag", "snowflake", "websearch">>

\* the key of an agent's section in results and content
SectionOf ==
    [rag |-> "historical_data", snowflake |-> "financial_metrics", websearch |-> "latest_insights"]

\* xxx_results.get("response", default)
DefaultContent ==
    [rag |-> "No historical data available", snowflake |-> "No financial metrics available",
     websearch |-> "No recent insights available"]

\* f"Error retrieving ...: {str(e)}"
ErrorContent ==
    [rag |-> "Error retrieving historical data: failure",
     snowflake |-> "Error retrieving financial metrics: failure",
     websearch |-> "Error retrieving latest insights: failure"]

\* what agent.query does: a dict with a response, a dict without one, or an exception
QueryOutcomes == {"responds", "no_response", "raises"}

\* ResearchQuery.agents as sets of the names the constructor looks for
AgentSelections == SUBSET Range(AgentOrder)

ActiveAgents(selection) == SelectSeq(AgentOrder, LAMBDA a : a \in selection)

\* the step of run after the block of agent a
AfterAgent(a) ==
    IF a = "rag" THEN "snowflake" ELSE IF a = "snowflake" THEN "websearch" ELSE "synthesis"

\* the section run stores for an agent
AgentSection(a, outcome) ==
    LET text == IF outcome = "raises" THEN ErrorContent[a]
                ELSE IF outcome = "no_response" THEN DefaultContent[a]
                ELSE "response of " \o a
        sources == IF outcome = "responds" THEN <<"source of " \o a>> ELSE <<>>
    IN IF a = "snowflake"
       THEN [content |-> text, chart |-> None, sources |-> sources]
       ELSE [content |-> text, sources |-> sources]

OrchestratorInit ==
    /\ request = [query |-> "total revenue", year |-> None, quarter |-> None, tools |-> AllTools]
    /\ input = request.query
    /\ year = request.year
    /\ quarter = request.quarter
    /\ intermediate_steps = <<>>
    /\ pc = "run"
    /\ nsteps = 0
    /\ scratchpad = ""
    /\ tool_call = NoCall
    /\ proposals = {}
    /\ dispatches = 0
    /\ collaborator = "none"
    /\ fault = NoFault
    /\ response = NoResponse
    /\ decisions = <<>>
    /\ agent_outcome = NoOutcome
    /\ \E selection \in AgentSelections :
          orchestrator = [pc |-> "rag", active_agents |-> ActiveAgents(selection),
                          queried |-> <<>>, failed |-> {}, results |-> EmptyDict,
                          content |-> EmptyDict, final_response |-> "",
                          final_report |-> EmptyDict]
    /\ files = NoFiles
    /\ bucket = NoObjects
    /\ workers = <<>>

\* QueryAgent without the try / except around the query
QueryAgent_Uncaught(a) ==
    /\ orchestrator.pc = a
    /\ IF a \in Range(orchestrator.active_agents)
       THEN \E outcome \in QueryOutcomes :
              IF outcome = "raises"
              THEN /\ orchestrator' = [orchestrator EXCEPT
                          !.pc = "raised",
                          !.queried = Append(@, a),
                          !.failed = @ \cup {a}]
                   /\ Raise("Exception", "run")
              ELSE /\ orchestrator' = [orchestrator EXCEPT
                          !.pc = AfterAgent(a),
                          !.queried = Append(@, a),
                          !.results = DictSet(@, SectionOf[a], AgentSection(a, outcome)),
                          !.content = DictSet(@, SectionOf[a], AgentSection(a, outcome).content)]
                   /\ UNCHANGED <<pc, fault>>
       ELSE /\ orchestrator' = [orchestrator EXCEPT !.pc = AfterAgent(a)]
            /\ UNCHANGED <<pc, fault>>
    /\ UNCHANGED <<chart_vars, decisions, agent_outcome, request, input, year, quarter,
                   intermediate_steps, nsteps, scratchpad, tool_call, proposals, dispatches,
                   collaborator, response>>

\* the block of run for agent a: skipped when a is not active, else the query inside
\* try / except
QueryAgent(a) ==
    /\ orchestrator.pc = a
    /\ IF a \in Range(orchestrator.active_agents)
       THEN \E outcome \in QueryOutcomes :
              orchestrator' = [orchestrator EXCEPT
                  !.pc = AfterAgent(a),
                  !.queried = Append(@, a),
                  !.failed = IF outcome = "raises" THEN @ \cup {a} ELSE @,
                  !.results = DictSet(@, SectionOf[a], AgentSection(a, outcome)),
                  !.content = DictSet(@, SectionOf[a], AgentSection(a, outcome).content)]
       ELSE orchestrator' = [orchestrator EXCEPT !.pc = AfterAgent(a)]
    /\ UNCHANGED <<chart_vars, decisions, agent_outcome, request, input, year, quarter,
                   intermediate_steps, pc, nsteps, scratchpad, tool_call, proposals, dispatches,
                   collaborator, fault, response>>

\* final_response: the synthesis of the model, the text of its failure, or the content of
\* the only active agent
Synthesize ==
    /\ orchestrator.pc = "synthesis"
    /\ IF Len(orchestrator.active_agents) > 1
       THEN \E text \in {"synthesis", "Error generating synthesis: failure"} :
              orchestrator' = [orchestrator EXCEPT !.pc = "report", !.final_response = text]
       ELSE orchestrator' = [orchestrator EXCEPT
                !.pc = "report",
                !.final_response =
                    IF Len(orchestrator.active_agents) = 1
                    THEN DictGet(orchestrator.content,
                                 SectionOf[orchestrator.active_agents[1]], "")
                    ELSE ""]
    /\ UNCHANGED <<chart_vars, decisions, agent_outcome, request, input, year, quarter,
                   intermediate_steps, pc, nsteps, scratchpad, tool_call, proposals, dispatches,
                   collaborator, fault, response>>

\* final_report = {"content": final_response, **results}; generate_research returns it
ReturnReport ==
    /\ orchestrator.pc = "report"
    /\ orchestrator' = [orchestrator EXCEPT
          !.pc = "returned",
          !.final_report = DictSet(orchestrator.results, "content", orchestrator.final_response)]
    /\ response' = [status |-> 200, answer |-> orchestrator'.final_report, detail |-> EmptyDict]
    /\ pc' = "END"
    /\ UNCHANGED <<chart_vars, decisions, agent_outcome, request, input, year, quarter,
                   intermediate_steps, nsteps, scratchpad, tool_call, proposals, dispatches,
                   collaborator, fault>>

OrchestratorNext ==
    \/ \E a \in Range(AgentOrder) : QueryAgent(a)
    \/ Synthesize
    \/ ReturnReport

OrchestratorSpec == OrchestratorInit /\ [][OrchestratorNext]_vars

(***************************************************************************)
(* Vocabulary of the properties                                            *)
(***************************************************************************)
Front(s) == SubSeq(s, 1, Len(s) - 1)

StartsWith(text, prefix) ==
    Len(text) >= Len(prefix) /\ SubSeq(text, 1, Len(prefix)) = prefix

\* a step of node "oracle" that returned a record
OracleStep == pc = "oracle" /\ pc' \in tool_map

\* a step of a tool node, whether run_tool returned or raised
ToolStep == pc \in tool_map /\ nsteps' = nsteps + 1

\* the proposal equals a record of the history that run_tool has resolved
MatchesResolved(steps, call) ==
    \E i \in 1..Len(steps) :
        IsResolved(steps[i]) /\ steps[i].tool = call[1] /\ steps[i].tool_input = call[2]

ResolvedTools(steps) == {steps[i].tool : i \in {j \in 1..Len(steps) : IsResolved(steps[j])}}

\* the output of the latest resolved record of a tool
LatestResolved(steps, tool) ==
    LET idx == {i \in 1..Len(steps) : IsResolved(steps[i]) /\ steps[i].tool = tool}
    IN steps[CHOOSE i \in idx : \A j \in idx : j <= i].log

\* the field of the forced report that carries a tool's output
ReportField == [rag_retrieve_chunks |-> "historical_performance",
                snowflake_query |-> "financial_analysis",
                web_search |-> "industry_insights"]

\* record is a forced final_answer record whose result carries, for every tool resolved
\* in steps, that tool's latest resolved output
ForcedWithOutputs(record, steps) ==
    /\ record.tool = "final_answer"
    /\ record.log = JsonDumps(record.tool_input, FinalOutputOrder)
    /\ \A t \in ResolvedTools(steps) :
          /\ t \in DOMAIN ReportField
          /\ record.tool_input[ReportField[t]] = Str(LatestResolved(steps, t))

(***************************************************************************)
(* C1: Loop Guard.  Whenever the action run_oracle is about to record has  *)
(* the tool and the argument bundle of a resolved record of the history,   *)
(* the record appended is a final_answer record, not the proposed tool,    *)
(* and its result carries the latest resolved output of every tool that    *)
(* has a resolved record.                                                  *)
(***************************************************************************)
C1_LoopGuard ==
    [][(OracleStep /\ MatchesResolved(intermediate_steps, tool_call'))
         => ForcedWithOutputs(Last(intermediate_steps'), intermediate_steps)]_vars

\* the guard has just replaced a repeated web_search by the forced record
C1_Witness ==
    /\ pc = "final_answer"
    /\ tool_call[1] = "web_search"
    /\ MatchesResolved(Front(intermediate_steps), tool_call)
    /\ IsResolved(Last(intermediate_steps))
    /\ Last(intermediate_steps).tool_input["industry_insights"] = Str(WebReport)

(***************************************************************************)
(* C2: the same (tool, args) proposed in two consecutive decision steps,   *)
(* the first one dispatched by run_tool: the second proposal is replaced   *)
(* by a final_answer record whose result carries that tool's resolved      *)
(* output.  (The claim as stated; the code violates it.)                   *)
(***************************************************************************)
C2_RepeatIntercepted ==
    [][(OracleStep /\ tool_call' = tool_call)
         => /\ Last(intermediate_steps').tool = "final_answer"
            /\ tool_call[1] \in DOMAIN ReportField
            /\ Last(intermediate_steps').tool_input[ReportField[tool_call[1]]]
                   = Str(LatestResolved(intermediate_steps, tool_call[1]))]_vars

(***************************************************************************)
(* C3: the number of run_tool executions of a session never exceeds the    *)
(* number of distinct (tool, args) combinations the Decision Step proposed *)
(* plus one.  (The claim as stated; the code violates it.)                 *)
(***************************************************************************)
C3_DispatchBound == dispatches <= Cardinality(proposals) + 1

(***************************************************************************)
(* C4: every session reaches END, the Loop Guard being the backstop: in    *)
(* particular a session whose Decision Step keeps proposing one and the    *)
(* same tool call ends by itself and is never still running when the graph *)
(* gives up.  (The claim as stated; the code violates it.)                 *)
(***************************************************************************)
C4_BackstopTerminates ==
    ~(fault.exc = "GraphRecursionError" /\ Cardinality(proposals) = 1)

(***************************************************************************)
(* C5: a failure of the collaborator behind a tool adapter is caught in    *)
(* run_tool and never leaves it as an exception.  (The claim as stated;    *)
(* the code violates it.)                                                  *)
(***************************************************************************)
C5_AdapterFailureCaught == ~(fault.at = "run_tool" /\ fault.exc = "ConnectionError")

(***************************************************************************)
(* C6: when the Snowflake connection fails during a snowflake_query        *)
(* dispatch, run_tool returns normally: the record it appends is a         *)
(* resolved snowflake_query record whose result is a non-empty text that   *)
(* begins with the error marker, the session goes on with the next         *)
(* Decision Step, and the request is never left without a response (a     *)
(* session can run on to END from there: C6_Witness).                      *)
(***************************************************************************)
SnowflakeFailureRecorded ==
    (ToolStep /\ pc = "snowflake_query" /\ collaborator' = "connect_fails")
      => /\ pc' = "oracle"
         /\ fault' = NoFault
         /\ Last(intermediate_steps').tool = "snowflake_query"
         /\ IsResolved(Last(intermediate_steps'))
         /\ Last(intermediate_steps').log # ""
         /\ StartsWith(Last(intermediate_steps').log, ErrorMarker)

SnowflakeFailed ==
    \E i \in 1..Len(intermediate_steps) : intermediate_steps[i].log = SnowflakeError

IsAnswer(r) ==
    /\ r.status = 200
    /\ r.detail = EmptyDict
    /\ "summary" \in DOMAIN r.answer
    /\ \/ DOMAIN r.answer = {"summary"}
       \/ DOMAIN r.answer = Range(FinalAnswerOrder)
    /\ \A k \in DOMAIN r.answer : r.answer[k].t = "str"

\* the request is not left without a response: while none was returned, the graph is
\* running within its superstep budget, or it ended and the handler has an answer to
\* return, or it raised and the handler can return the error envelope
NeverStuck ==
    response = NoResponse =>
        \/ pc = "start"
        \/ pc = "oracle" /\ nsteps <= RecursionLimit
        \/ pc \in tool_map /\ nsteps <= RecursionLimit /\ Last(intermediate_steps).tool = pc
        \/ /\ pc = "END"
           /\ IsAnswer([status |-> 200, answer |-> Answer(intermediate_steps),
                        detail |-> EmptyDict])
        \/ pc = "raised" /\ ENABLED Respond

IsErrorEnvelope(r) ==
    /\ r.status = 500
    /\ r.answer = EmptyDict
    /\ DOMAIN r.detail = {"error", "traceback"}
    /\ r.detail["error"] = fault.exc
    /\ fault # NoFault

ResponseShape ==
    /\ response # NoResponse => (IsAnswer(response) \/ IsErrorEnvelope(response))
    /\ response # NoResponse => (IsAnswer(response) <=> pc = "END")

C7_AlwaysResponds == ResponseShape /\ NeverStuck

\* an error envelope was returned for a failure inside the graph
C7_Witness ==
    /\ IsErrorEnvelope(response)
    /\ fault.at \in {"run_oracle", "run_tool", "initialize_oracle"}

(***************************************************************************)
(* C8: a model response without a tool call never ends the session with    *)
(* an exception leaving run_oracle.  (The claim as stated; the code        *)
(* violates it.)                                                           *)
(***************************************************************************)
C8_MalformedOutputCaptured == fault.at # "run_oracle"

(***************************************************************************)
(* C9: a request naming a tool that tool_map does not hold is answered     *)
(* with a client error (4xx).  (The claim as stated; the code violates     *)
(* it.)                                                                    *)
(***************************************************************************)
C9_UnknownToolClientError ==
    (response # NoResponse /\ fault.exc = "KeyError") => response.status \in 400..499

(***************************************************************************)
(* C10: append-only Session State.  Over every step of run_oracle and      *)
(* run_tool the old intermediate_steps is a prefix of the new one and      *)
(* input, year and quarter keep their values.  (The claim as stated; the   *)
(* code violates it.)                                                      *)
(***************************************************************************)
C10_AppendOnly ==
    [][(pc \in tool_map \cup {"oracle"})
         => /\ IsPrefix(intermediate_steps, intermediate_steps')
            /\ input' = input
            /\ year' = year
            /\ quarter' = quarter]_vars

(***************************************************************************)
(* C11: immutability of Action Records.  Over every step, each record the  *)
(* history already holds keeps its tool identifier, its argument bundle    *)
(* and its result payload; the normalization of run_tool alters no stored  *)
(* argument bundle.  (The claim as stated; the code violates it.)          *)
(***************************************************************************)
C11_RecordsImmutable ==
    [][\A i \in 1..Len(intermediate_steps) :
          /\ i <= Len(intermediate_steps')
          /\ intermediate_steps'[i].tool = intermediate_steps[i].tool
          /\ intermediate_steps'[i].tool_input = intermediate_steps[i].tool_input
          /\ intermediate_steps'[i].log = intermediate_steps[i].log]_vars

(***************************************************************************)
(* C12: the control loop.  The Decision Step hands over to the tool node   *)
(* of the action it emitted, a tool node other than final_answer hands     *)
(* back to the Decision Step, and END is entered only from the             *)
(* final_answer node, that is after a finalize action; a failure leaves    *)
(* the loop for good.  Decision Step and Dispatcher therefore alternate:   *)
(* at the Decision Step as many dispatches as decisions have run, at a     *)
(* tool node one decision more.                                            *)
(***************************************************************************)
LoopTransitions ==
    /\ pc = "start" => pc' \in {"oracle", "raised"}
    /\ pc = "oracle" =>
          /\ pc' \in tool_map \cup {"raised"}
          /\ pc' \in tool_map => Last(intermediate_steps').tool = pc'
    /\ pc \in tool_map \ {"final_answer"} => pc' \in {"oracle", "raised"}
    /\ pc = "final_answer" => pc' \in {"END", "raised"}
    /\ pc \in {"END", "raised"} => pc' = pc
    /\ pc' = "END" =>
          /\ Last(intermediate_steps).tool = "final_answer"
          /\ Last(intermediate_steps').tool = "final_answer"

Alternation ==
    /\ pc = "oracle" => nsteps = 2 * dispatches
    /\ pc \in tool_map => nsteps = 2 * dispatches + 1
    /\ pc = "END" => nsteps = 2 * dispatches

ResolvedReports(steps) ==
    {i \in 1..Len(steps) : steps[i].tool = "final_answer" /\ IsResolved(steps[i])}

C13_ReportOnce ==
    /\ [](pc = "END" => Cardinality(ResolvedReports(intermediate_steps)) = 1)
    /\ [][ToolStep => ~IsResolved(Last(intermediate_steps))]_vars

(***************************************************************************)
(* C14: completeness of the Final Report.  A session that ends with a      *)
(* report returns all seven named fields, the field of every tool that has *)
(* no resolved record holds the not-available marker "N/A", and a          *)
(* final_answer dispatch never fails over a field the model left out.      *)
(* (The claim as stated; the code violates it.)                            *)
(***************************************************************************)
C14_ReportComplete ==
    /\ ~(/\ fault.at = "run_tool"
         /\ fault.exc = "ValidationError"
         /\ Last(intermediate_steps).tool = "final_answer")
    /\ (response.status = 200 /\ Last(intermediate_steps).tool = "final_answer") =>
          /\ DOMAIN response.answer = Range(FinalAnswerOrder)
          /\ \A t \in DOMAIN ReportField :
                t \notin ResolvedTools(intermediate_steps)
                   => response.answer[ReportField[t]] = Str("N/A")

(***************************************************************************)
(* C15: only identical repeats are blocked.  A proposal that differs from  *)
(* every record of the history is recorded as proposed and routed to its   *)
(* tool node, however often that tool has run; a proposal identical to an  *)
(* earlier proposal of the session is replaced by the forced final_answer  *)
(* record and so never dispatched.  (The claim as stated; the code         *)
(* violates it.)                                                           *)
(***************************************************************************)
DiffersFromHistory(steps, call) ==
    \A i \in 1..Len(steps) : steps[i].tool # call[1] \/ steps[i].tool_input # call[2]

C15_OnlyIdenticalRepeatsBlocked ==
    [][OracleStep =>
         /\ DiffersFromHistory(intermediate_steps, tool_call') =>
               /\ pc' = tool_call'[1]
               /\ Last(intermediate_steps') = AgentAction(tool_call'[1], tool_call'[2], Pending)
         /\ tool_call' \in proposals =>
               /\ pc' = "final_answer"
               /\ IsResolved(Last(intermediate_steps'))]_vars

(***************************************************************************)
(* C16: the scratchpad text build_scratchpad gives the model never has     *)
(* more than 12000 characters, and it is the whole joined text of the      *)
(* history whenever that text has at most 12000 characters.                *)
(***************************************************************************)
ScratchpadBuilt == scratchpad = build_scratchpad(intermediate_steps)

C16_ScratchpadBudget ==
    /\ Len(scratchpad) <= ScratchpadLimit
    /\ ScratchpadBuilt =>
          (Len(JoinedSteps(intermediate_steps)) <= ScratchpadLimit
              => scratchpad = JoinedSteps(intermediate_steps))

\* a history whose joined text is over the budget, cut to exactly the budget
C16_Witness ==
    /\ Len(JoinedSteps(intermediate_steps)) > ScratchpadLimit
    /\ ScratchpadBuilt
    /\ Len(scratchpad) = ScratchpadLimit

(***************************************************************************)
(* C17: when the joined text exceeds the budget, the scratchpad keeps the  *)
(* most recent entries: the text built for a history is a suffix of that   *)
(* history's joined text.  (The claim as stated; the code violates it.)    *)
(***************************************************************************)
IsTextSuffix(text, full) ==
    /\ Len(text) <= Len(full)
    /\ SubSeq(full, Len(full) - Len(text) + 1, Len(full)) = text

C17_KeepsMostRecent ==
    (intermediate_steps # <<>> /\ ScratchpadBuilt)
        => IsTextSuffix(scratchpad, JoinedSteps(intermediate_steps))

(***************************************************************************)
(* C18: sessions are independent.  Whatever the interleaving of two        *)
(* sessions' snowflake_query dispatches, every chart a session uploads is  *)
(* the chart of the data that session read, and its result payload is the  *)
(* text of its own data and charts.  (The claim as stated; the code        *)
(* violates it.)                                                           *)
(***************************************************************************)
C18_SessionsIndependent ==
    \A s \in DOMAIN workers :
        /\ \A i \in 1..Len(workers[s].uploaded) :
              workers[s].uploaded[i].data = workers[s].df
        /\ workers[s].pc = "returned" =>
              workers[s].result = ToolResult(workers[s].df,
                  [i \in 1..Len(ChartJobs(workers[s].query)) |->
                      S3Url(ChartJobs(workers[s].query)[i])] )

(***************************************************************************)
(* C19: retrieval without data.  When rag_retrieve_chunks is dispatched    *)
(* and the collaborator returns no chunk, run_tool returns normally and    *)
(* the resolved record's result is the literal no-data marker; and the     *)
(* report a session returns after such a retrieval (its latest) has the    *)
(* marker as its historical_performance.  (The claim as stated; the code   *)
(* violates it.)                                                           *)
(***************************************************************************)
NoChunksRecorded ==
    (ToolStep /\ pc = "rag_retrieve_chunks" /\ collaborator' = "no_chunks" /\ fault' = NoFault)
      => /\ pc' = "oracle"
         /\ Last(intermediate_steps').tool = "rag_retrieve_chunks"
         /\ Last(intermediate_steps').log = NoDataMarker

RetrievalFoundNothing(steps) ==
    /\ "rag_retrieve_chunks" \in ResolvedTools(steps)
    /\ LatestResolved(steps, "rag_retrieve_chunks") = NoDataMarker

ReportCarriesNoData ==
    (/\ response.status = 200
     /\ Last(intermediate_steps).tool = "final_answer"
     /\ RetrievalFoundNothing(intermediate_steps))
      => /\ "historical_performance" \in DOMAIN response.answer
         /\ response.answer["historical_performance"] = Str(NoDataMarker)

C19_NoDataScenario == [][NoChunksRecorded]_vars /\ []ReportCarriesNoData

(***************************************************************************)
(* C20: round trip of the Final Report.  In a session at END, the JSON     *)
(* text in the log of the last record (written by run_tool from the        *)
(* final_answer tool's result) and the JSON text in the log of every       *)
(* record the Loop Guard created parse back to the report they were        *)
(* written from, field for field and with the fields in the order of the   *)
(* report; the answer the entry point returns is that parsed report.       *)
(***************************************************************************)
ParsesTo(parsed, report, order) ==
    /\ parsed.ok
    /\ parsed.keys = KeysIn(report, order)
    /\ parsed.obj = report

RoundTrip(report, order, text) == ParsesTo(json_loads(text), report, order)

C20_ReportRoundTrip ==
    pc = "END" =>
        /\ RoundTrip(final_answer(Last(intermediate_steps).tool_input), FinalAnswerOrder,
                     Last(intermediate_steps).log)
        /\ \A i \in 1..(Len(intermediate_steps) - 1) :
              (intermediate_steps[i].tool = "final_answer" /\ IsResolved(intermediate_steps[i]))
                 => RoundTrip(intermediate_steps[i].tool_input, FinalOutputOrder,
                              intermediate_steps[i].log)
        /\ response.status = 200 =>
              response.answer = final_answer(Last(intermediate_steps).tool_input)

\* a forced report, whose sources text holds line breaks, came back from the entry point
C20_Witness ==
    /\ response.status = 200
    /\ tool_call[1] # "final_answer"
    /\ Last(intermediate_steps).tool = "final_answer"
    /\ response.answer["sources"] = Str("- Pinecone\n- Snowflake\n- Web Search")

(***************************************************************************)
(* C21: the answer of the entry point is the parsed report when the last   *)
(* record is a final_answer record whose log is JSON, and {summary: log}   *)
(* when the log is not JSON or the last record belongs to another tool; a  *)
(* parse failure never gives an error response.                            *)
(***************************************************************************)
C21_ResultShape ==
    response # NoResponse =>
        /\ response.status = 200
        /\ \A c \in HandlerCases :
              Last(intermediate_steps) = c.record =>
                  response.answer = IF c.record.tool = "final_answer" /\ c.parses
                                    THEN c.report
                                    ELSE [summary |-> Str(c.record.log)]

\* C21: the handler answered for a final_answer record whose log is cut-off JSON
C21_Witness ==
    /\ response.status = 200
    /\ Last(intermediate_steps).tool = "final_answer"
    /\ Last(intermediate_steps).log = SubSeq(CompleteLog, 1, 40)
    /\ response.answer = [summary |-> Str(SubSeq(CompleteLog, 1, 40))]

PassedArgs == intermediate_steps'[Len(intermediate_steps)].tool_input

\* the argument bundle the model wrote
ProposedArgs == Last(intermediate_steps).tool_input

(***************************************************************************)
(* C24: in every dispatch of rag_retrieve_chunks or snowflake_query the    *)
(* year and quarter passed to the adapter are the session's (the quarter   *)
(* as C25 says), whatever the model wrote; for web_search and final_answer *)
(* the bundle is passed as the model wrote it.                             *)
(***************************************************************************)
C24_FilterInjection ==
    [][ToolStep =>
          IF pc \in {"rag_retrieve_chunks", "snowflake_query"}
          THEN /\ PassedArgs["year"] = year
               /\ \/ PassedArgs["quarter"] = quarter
                  \/ /\ pc = "rag_retrieve_chunks"
                     /\ IsList(quarter)
                     /\ PassedArgs["quarter"] = Str(quarter.v[1])
          ELSE PassedArgs = ProposedArgs]_vars

\* C24: a retrieval ran in a session of 2024 although the model had asked for 1999 / Q4
C24_Witness ==
    /\ dispatches = 1
    /\ tool_call[1] = "rag_retrieve_chunks"
    /\ "year" \in DOMAIN tool_call[2]
    /\ tool_call[2]["year"] = Str("1999")
    /\ year = Str("2024")
    /\ quarter = None
    /\ IsResolved(Last(intermediate_steps))
    /\ Last(intermediate_steps).tool_input["year"] = Str("2024")
    /\ Last(intermediate_steps).tool_input["quarter"] = None

C26_RawResultStored ==
    [][(ToolStep /\ fault' = NoFault) =>
          LET result == Invoke(pc, PassedArgs, collaborator')
          IN Last(intermediate_steps').log =
                IF result.is_str THEN result.text
                ELSE JsonDumps(result.obj, FinalAnswerOrder)]_vars

(***************************************************************************)
(* C30: the argument normalization of run_tool never fails: for every      *)
(* tool, argument bundle and filter context the adapter is invoked.        *)
(***************************************************************************)
C30_NormalizationTotal == ~(fault.at = "run_tool" /\ fault.exc = "IndexError")

(***************************************************************************)
(* C28: each step of the control loop adds exactly one Action Record: over *)
(* every node that returns, the stored sequence grows by one record and    *)
(* the state merge does not duplicate the history.  (The claim as stated;  *)
(* the code violates it.)                                                  *)
(***************************************************************************)
C28_OneRecordPerStep ==
    [][((OracleStep \/ ToolStep) /\ fault' = NoFault)
         => /\ Len(intermediate_steps') = Len(intermediate_steps) + 1
            /\ \A r \in Range(intermediate_steps) :
                  Cardinality({i \in 1..Len(intermediate_steps') : intermediate_steps'[i] = r})
                     <= Cardinality({i \in 1..Len(intermediate_steps) :
                                        intermediate_steps[i] = r})]_vars

(***************************************************************************)
(* C29: the pending placeholder never leaks into a report.  At every entry *)
(* of run_oracle each pending record is followed by a resolved record of   *)
(* the same tool, and in every report forced by the Loop Guard each of     *)
(* historical_performance, financial_analysis and industry_insights is     *)
(* "N/A" or the latest resolved output of its tool, never "TBD".           *)
(***************************************************************************)
PendingsResolved(steps) ==
    \A i \in 1..Len(steps) :
        ~IsResolved(steps[i]) =>
            \E j \in (i + 1)..Len(steps) : steps[j].tool = steps[i].tool /\ IsResolved(steps[j])

ForcedFieldsResolved ==
    (OracleStep /\ LoopGuardHit(intermediate_steps, tool_call'[1], tool_call'[2])) =>
        \A t \in DOMAIN ReportField :
            LET field == Last(intermediate_steps').tool_input[ReportField[t]]
            IN /\ field # Str(Pending)
               /\ \/ field = Str("N/A") /\ t \notin ResolvedTools(intermediate_steps)
                  \/ /\ t \in ResolvedTools(intermediate_steps)
                     /\ field = Str(LatestResolved(intermediate_steps, t))

C29_NoPendingLeak ==
    /\ [](pc = "oracle" => PendingsResolved(intermediate_steps))
    /\ [][ForcedFieldsResolved]_vars

\* C29: a report was forced from a history that holds a pending record; it carries the
\* resolved web output and "N/A" for the retrieval that never ran
C29_Witness ==
    /\ pc = "final_answer"
    /\ Last(intermediate_steps).tool = "final_answer"
    /\ IsResolved(Last(intermediate_steps))
    /\ \E i \in 1..Len(intermediate_steps) : ~IsResolved(intermediate_steps[i])
    /\ Last(intermediate_steps).tool_input["industry_insights"] = Str(WebReport)
    /\ Last(intermediate_steps).tool_input["historical_performance"] = Str("N/A")

(***************************************************************************)
(* C23: the agent-executor variant terminates like the control loop of the *)
(* spec: whatever the Decision Step returns, the same tool with the same   *)
(* input forever included, a session that entered the graph eventually     *)
(* reaches END.  (The claim as stated; the code violates it.)              *)
(***************************************************************************)
C23_VariantTerminates == (pc = "oracle") ~> (pc = "END")

(***************************************************************************)
(* C27: ResearchOrchestrator.run recovers from upstream failures.  For any *)
(* set of enabled agents and any subset of them that raises, run queries   *)
(* the enabled agents in the order rag, snowflake, websearch, never        *)
(* raises, and returns a report with the key content and exactly one       *)
(* section per enabled agent, the section of a failed agent holding an     *)
(* error text.                                                             *)
(***************************************************************************)
C27_OrchestratorRecovers ==
    /\ orchestrator.pc # "raised"
    /\ fault = NoFault
    /\ IsPrefix(orchestrator.queried, orchestrator.active_agents)
    /\ orchestrator.pc \in {"synthesis", "report", "returned"} =>
          orchestrator.queried = orchestrator.active_agents
    /\ orchestrator.pc = "returned" =>
          /\ response.status = 200
          /\ response.answer = orchestrator.final_report
          /\ DOMAIN orchestrator.final_report =
                {"content"} \cup {SectionOf[a] : a \in Range(orchestrator.active_agents)}
          /\ \A a \in orchestrator.failed :
                orchestrator.final_report[SectionOf[a]].content = ErrorContent[a]

\* C27: rag raised, snowflake and websearch were still queried, and the report came back
\* with the three sections
C27_Witness ==
    /\ orchestrator.pc = "returned"
    /\ orchestrator.failed = {"rag"}
    /\ orchestrator.queried = <<"rag", "snowflake", "websearch">>
    /\ orchestrator.final_report["historical_data"].content = ErrorContent["rag"]
    /\ orchestrator.final_report["latest_insights"].content = "response of websearch"
    /\ response.status = 200

====
